---- MODULE Spec2Model ----
(***************************************************************************)
(* Model of the timeframe conversion and multi-timeframe merge engine:     *)
(*   libs/TimeframeData.py     TimeframeData.convert / convertMany         *)
(*   libs/__TimeFrameData.py   TimeFrameData.toTimeframe / mergeTimeframes *)
(*                             / _rename_cols / _to_higher_tf_accurate     *)
(*                                                                         *)
(* A table is a record [columns, rows]; a row is [ts, v] where ts is the   *)
(* timestamp in minutes since the epoch (Sunday 2024-12-29 00:00) and v    *)
(* maps every column to its value.  A column name is a tuple of strings:   *)
(* <<"Open">> is the flat column Open, <<"Price","Open">> the two-level    *)
(* column (Price, Open), <<"Price","Open","week">> the two-level column    *)
(* (Price, "Open_week") and <<"Open","day","">> the column (Open, day)     *)
(* that _rename_cols makes of a flat column.                               *)
(***************************************************************************)
EXTENDS Integers, Sequences, FiniteSets, TLC

VARIABLES interval, data, res

vars == <<interval, data, res>>

(* ---------------------------- bounds ----------------------------------- *)
MaxLen == 2      \* rows of the input series
MaxStamp == 2    \* input timestamps are 0..MaxStamp steps of the interval
MaxVolume == 1   \* volumes are 1..MaxVolume
MaxTf == 4       \* intraday timeframes are 1..MaxTf minutes

\* The price levels of the input bars.  first, last, max and min only compare
\* and select, so two levels tell them apart.
PriceLevels == {1, 2}

(* ---------------------------- values ----------------------------------- *)
MinutesPerDay == 24 * 60

\* the missing value (NaN) of a cell; every real price and volume is >= 0
NaN == -1

NotNaN(x) == x # NaN

Min(S) == CHOOSE x \in S : \A y \in S : x <= y

Max(S) == CHOOSE x \in S : \A y \in S : x >= y

RECURSIVE SortedSeq(_)
SortedSeq(S) == IF S = {} THEN <<>>
                ELSE LET m == Min(S) IN <<m>> \o SortedSeq(S \ {m})

RECURSIVE SumSeq(_)
SumSeq(xs) == IF xs = <<>> THEN 0 ELSE Head(xs) + SumSeq(Tail(xs))

Range(xs) == {xs[i] : i \in DOMAIN xs}

OPEN == <<"Open">>
HIGH == <<"High">>
LOW == <<"Low">>
CLOSE == <<"Close">>
VOLUME == <<"Volume">>

OHLCColumns == {OPEN, HIGH, LOW, CLOSE}

OHLCVColumns == OHLCColumns \cup {VOLUME}

EmptyTable == [columns |-> {}, rows |-> <<>>]

Index(df) == [i \in DOMAIN df.rows |-> df.rows[i].ts]

Stamps(df) == {df.rows[i].ts : i \in DOMAIN df.rows}

\* the values of column c, in row order
ColumnOf(rows, c) == [i \in DOMAIN rows |-> rows[i].v[c]]

\* data[cols]: the projection of a table on some of its columns
Project(df, cols) ==
  [columns |-> cols,
   rows |-> [i \in DOMAIN df.rows |->
               [ts |-> df.rows[i].ts, v |-> [c \in cols |-> df.rows[i].v[c]]]]]

(* ------------------- pandas aggregation functions ---------------------- *)
\* 'first': the first non-missing value, NaN when there is none
AggFirst(xs) == LET nn == SelectSeq(xs, NotNaN)
                IN IF nn = <<>> THEN NaN ELSE nn[1]

\* 'last': the last non-missing value, NaN when there is none
AggLast(xs) == LET nn == SelectSeq(xs, NotNaN)
               IN IF nn = <<>> THEN NaN ELSE nn[Len(nn)]

\* AggMax with 'last' written where 'max' belongs
AggMaxAsLast(xs) == AggLast(xs)

AggMax(xs) == LET nn == SelectSeq(xs, NotNaN)
              IN IF nn = <<>> THEN NaN ELSE Max(Range(nn))

AggMin(xs) == LET nn == SelectSeq(xs, NotNaN)
              IN IF nn = <<>> THEN NaN ELSE Min(Range(nn))

\* 'sum': the sum of the non-missing values, 0 for an empty period
AggSum(xs) == SumSeq(SelectSeq(xs, NotNaN))

Agg(how, xs) == CASE how = "first" -> AggFirst(xs)
                  [] how = "max" -> AggMax(xs)
                  [] how = "min" -> AggMin(xs)
                  [] how = "last" -> AggLast(xs)
                  [] how = "sum" -> AggSum(xs)

(* ----------------------------- calendar -------------------------------- *)
\* Day numbers count from the epoch, Sunday 2024-12-29 (day 0).
DayOf(t) == t \div MinutesPerDay

Horizon == (0 - 8)..(MaxStamp + 8)

Days == Horizon

\* W-MON: Mondays (2024-12-30 is day 1)
Mondays == {d \in Horizon : d % 7 = 1}

\* W (= W-SUN): Sundays
Sundays == {d \in Horizon : d % 7 = 0}

\* M: month ends 2024-11-30, 2024-12-31, 2025-01-31, 2025-02-28
MonthEnds == {0 - 29, 2, 33, 61}

\* Y: year ends 2023-12-31, 2024-12-31, 2025-12-31
YearEnds == {0 - 364, 2, 367}

Anchors(freq) == CASE freq = "D" -> Days
                   [] freq = "W-MON" -> Mondays
                   [] freq = "W" -> Sundays
                   [] freq = "M" -> MonthEnds
                   [] freq = "Y" -> YearEnds

\* offset.rollback(day): the last anchor on or before the day
Rollback(freq, d) == CASE freq = "D" -> d
                       [] freq = "W-MON" -> d - ((d - 1) % 7)
                       [] freq = "W" -> d - (d % 7)
                       [] OTHER -> Max({a \in Anchors(freq) : a <= d})

\* the first anchor on or after the day: the end of the Period holding it
Rollforward(freq, d) == CASE freq = "D" -> d
                          [] freq = "W-MON" -> d + ((1 - d) % 7)
                          [] freq = "W" -> d + ((0 - d) % 7)
                          [] OTHER -> Min({a \in Anchors(freq) : a >= d})

(* ---------------------------- resampling ------------------------------- *)
\* .resample(...).agg(how): one row per bin between the first and the last
\* input row, empty bins included; labels is the sorted list of bin labels,
\* labelOf maps every timestamp of df to its bin and how maps every column
\* to its aggregation.
Resample(df, cols, labels, labelOf, how) ==
  [k \in DOMAIN labels |->
     LET grp == SelectSeq(df.rows, LAMBDA r : labelOf[r.ts] = labels[k])
     IN [ts |-> labels[k],
         v |-> [c \in cols |-> Agg(how[c], ColumnOf(grp, c))]]]

\* the bin labels from the bin of the first row to the bin of the last row
BinLabels(df, grid, labelOf) ==
  IF df.rows = <<>> THEN <<>>
  ELSE LET lo == labelOf[df.rows[1].ts]
           hi == labelOf[df.rows[Len(df.rows)].ts]
       IN SortedSeq({a \in grid : lo <= a /\ a <= hi})

AnyNaN(r) == \E c \in DOMAIN r.v : r.v[c] = NaN

AllNaN(r) == \A c \in DOMAIN r.v : r.v[c] = NaN

\* .dropna(): drops every row holding a missing value
DropNaAny(rows) == SelectSeq(rows, LAMBDA r : ~AnyNaN(r))

\* .dropna(how="all"): drops the rows whose values are all missing
DropNaAll(rows) == SelectSeq(rows, LAMBDA r : ~AllNaN(r))

(* ------------------- TimeframeData (libs/TimeframeData.py) ------------- *)
\* the aggregation dictionary of convert
ConvertAgg(c) == CASE c = OPEN -> "first"
                   [] c = HIGH -> "max"
                   [] c = LOW -> "min"
                   [] c = CLOSE -> "last"
                   [] c = VOLUME -> "sum"

IntTf(n) == [type |-> "int", n |-> n, s |-> <<>>]

StrTf(s) == [type |-> "str", n |-> 0, s |-> s]

\* a target that is neither an int nor a str (None, a float)
OtherTf == [type |-> "other", n |-> 0, s |-> <<>>]

NoTf == [type |-> "none", n |-> 0, s |-> <<>>]

Failure(status) == [status |-> status, out |-> EmptyTable]

Success(df) == [status |-> "ok", out |-> df]

\* IntradayValid with the operands of the remainder swapped
IntradayValidSwapped(from_tf, to_tf) ==
  LET factor == to_tf \div from_tf
  IN ~(factor < 1 \/ from_tf % to_tf # 0)

\* the test of the intraday branch: factor >= 1 and to_tf a multiple of from_tf
IntradayValid(from_tf, to_tf) ==
  LET factor == to_tf \div from_tf
  IN ~(factor < 1 \/ to_tf % from_tf # 0)

\* the bin of a timestamp under resample(f"{to_tf}min"): bins are to_tf
\* minutes wide, counted from midnight of the first row's day
MinuteLabel(df, to_tf, t) ==
  LET origin == DayOf(df.rows[1].ts) * MinutesPerDay
  IN origin + ((t - origin) \div to_tf) * to_tf

MinuteGrid(df, to_tf) ==
  IF df.rows = <<>> THEN {}
  ELSE LET origin == DayOf(df.rows[1].ts) * MinutesPerDay
       IN {a \in df.rows[1].ts - to_tf .. df.rows[Len(df.rows)].ts :
             (a - origin) % to_tf = 0}

EndsWith(s, ch) == Len(s) > 0 /\ s[Len(s)] = ch

\* to_tf[:-1]
Prefix(s) == SubSeq(s, 1, Len(s) - 1)

DigitValue(ch) == CASE ch = "1" -> 1 [] ch = "2" -> 2 [] ch = "3" -> 3

Digits == {"1", "2", "3"}

\* the multiplier pandas reads in front of a frequency alias; 0 when the
\* prefix is not a number (pandas rejects the frequency string)
Multiplier(p) == IF p = <<>> THEN 1
                 ELSE IF Len(p) = 1 /\ p[1] \in Digits THEN DigitValue(p[1])
                 ELSE 0

\* the bin of a timestamp under resample(freq) with pandas' defaults:
\* "D" bins are left-closed and left-labelled, n days wide from the first
\* row's day; "W" (weeks ending Sunday) and "M" (month end) bins are
\* right-closed and labelled by their last day
CalendarLabel(df, unit, n, t) ==
  IF unit = "D"
  THEN LET origin == DayOf(df.rows[1].ts)
       IN (origin + ((DayOf(t) - origin) \div n) * n) * MinutesPerDay
  ELSE Rollforward(unit, DayOf(t)) * MinutesPerDay

CalendarGrid(unit) == {a * MinutesPerDay : a \in Anchors(unit)}

\* the frequency alias convert picks from the suffix of a string target
ConvertUnit(s) == IF EndsWith(s, "d") THEN "D"
                  ELSE IF EndsWith(s, "w") THEN "W"
                  ELSE IF EndsWith(s, "m") THEN "M"
                  ELSE "unsupported"

\* data.resample(...).agg({...}).dropna() of convert
ConvertResample(df, grid, labelOf) ==
  IF ~(OHLCVColumns \subseteq df.columns)
  THEN Failure("KeyError")
  ELSE Success([columns |-> OHLCVColumns,
                rows |-> DropNaAny(Resample(df, OHLCVColumns,
                                            BinLabels(df, grid, labelOf),
                                            labelOf,
                                            [c \in OHLCVColumns |-> ConvertAgg(c)]))])

\* TimeframeData.convert(data, (from_tf, to_tf))
convert(df, from_tf, to_tf) ==
  IF to_tf.type = "int"
  THEN IF ~IntradayValid(from_tf, to_tf.n)
       THEN Failure("MustBeMultiple")
       ELSE ConvertResample(df, MinuteGrid(df, to_tf.n),
                            [t \in Stamps(df) |-> MinuteLabel(df, to_tf.n, t)])
  ELSE IF to_tf.type = "str"
  THEN LET unit == ConvertUnit(to_tf.s)
           n == Multiplier(Prefix(to_tf.s))
       IN IF unit = "unsupported" THEN Failure("UnsupportedHigherTimeframe")
          ELSE IF n = 0 THEN Failure("InvalidFrequency")
          ELSE ConvertResample(df, CalendarGrid(unit),
                               [t \in Stamps(df) |->
                                  CalendarLabel(df, unit, n, t)])
  ELSE Failure("InvalidTargetType")

\* TimeframeData.convertMany(data, conversion): a dict comprehension over the
\* symbols in column order; the first convert that raises ends the call and
\* no dict is returned
convertMany(table, from_tf, to_tf) ==
  LET results == [i \in DOMAIN table |-> convert(table[i].df, from_tf, to_tf)]
      failed == {i \in DOMAIN table : results[i].status # "ok"}
  IN IF failed # {}
     THEN [status |-> results[Min(failed)].status, many |-> <<>>]
     ELSE [status |-> "ok",
           many |-> [i \in DOMAIN table |->
                       [symbol |-> table[i].symbol, df |-> results[i].out]]]

(* ------------------ TimeFrameData (libs/__TimeFrameData.py) ------------ *)
\* the timeframe label None
None == "None"

Labels == {"day", "week", "month", "year"}

\* FreqMap with another default frequency
FreqMapWeekDefault(timeframe) == CASE timeframe = "day" -> "D"
                                   [] timeframe = "week" -> "W-MON"
                                   [] timeframe = "month" -> "M"
                                   [] timeframe = "year" -> "Y"
                                   [] OTHER -> "W-MON"

\* self.freq_map.get(timeframe, "D")
FreqMap(timeframe) == CASE timeframe = "day" -> "D"
                        [] timeframe = "week" -> "W-MON"
                        [] timeframe = "month" -> "M"
                        [] timeframe = "year" -> "Y"
                        [] OTHER -> "D"

\* self.tf_priority[timeframe]; 0 stands for the KeyError of an unknown label
TfPriority(timeframe) == CASE timeframe = "day" -> 1
                           [] timeframe = "week" -> 2
                           [] timeframe = "month" -> 3
                           [] timeframe = "year" -> 4
                           [] OTHER -> 0

\* the agg_dict of toTimeframe with the default ohlc list
ToTimeframeAgg(c) == CASE c = OPEN -> "first"
                       [] c = HIGH -> "max"
                       [] c = LOW -> "min"
                       [] c = CLOSE -> "last"
                       [] c = VOLUME -> "sum"
                       [] OTHER -> "last"

\* the bin of a timestamp under resample(freq, label="left", closed="left"):
\* [anchor, next anchor), labelled by its first day
LeftLabel(freq, t) == Rollback(freq, DayOf(t)) * MinutesPerDay

\* TimeFrameData.toTimeframe(data, timeframe)
toTimeframe(df, timeframe) ==
  LET freq == FreqMap(timeframe)
      labelOf == [t \in Stamps(df) |-> LeftLabel(freq, t)]
      rows == DropNaAll(Resample(df, df.columns,
                                 BinLabels(df, CalendarGrid(freq), labelOf),
                                 labelOf,
                                 [c \in df.columns |-> ToTimeframeAgg(c)]))
  IN Success([columns |-> {<<"Price">> \o c : c \in df.columns},
              rows |-> [i \in DOMAIN rows |->
                          [ts |-> rows[i].ts,
                           v |-> [pc \in {<<"Price">> \o c : c \in df.columns}
                                    |-> rows[i].v[Tail(pc)]]]]])

\* the new name _rename_cols gives a column
RenamedCol(col, suffix) ==
  IF Len(col) = 2 THEN <<col[1], col[2], suffix>>
  ELSE <<col[1], suffix, "">>

\* the column a renamed column was made of
RenamedFrom(nc) == IF nc[3] = "" THEN <<nc[1]>> ELSE <<nc[1], nc[2]>>

\* TimeFrameData._rename_cols(df, suffix)
RenameCols(df, suffix) ==
  LET new_cols == {RenamedCol(c, suffix) : c \in df.columns}
  IN [columns |-> new_cols,
      rows |-> [i \in DOMAIN df.rows |->
                  [ts |-> df.rows[i].ts,
                   v |-> [nc \in new_cols |-> df.rows[i].v[RenamedFrom(nc)]]]]]

\* base_df.index.to_period(freq): the Period holding a timestamp, named by
\* its last day
PeriodOf(freq, t) == Rollforward(freq, DayOf(t))

\* PartOf without the slice up to row i: the whole period
PartOfWholePeriod(df, freq, i) ==
  LET p == PeriodOf(freq, df.rows[i].ts)
  IN SelectSeq(df.rows, LAMBDA r : PeriodOf(freq, r.ts) = p)

\* the rows of the period of row i, from the period's first row up to row i
\* (group_slice.iloc[: i+1])
PartOf(df, freq, i) ==
  LET p == PeriodOf(freq, df.rows[i].ts)
  IN SelectSeq(SubSeq(df.rows, 1, i),
               LAMBDA r : PeriodOf(freq, r.ts) = p)

\* row_dict of one base row
AccurateRow(part, cols) ==
  [c \in cols |->
     CASE c = OPEN -> ColumnOf(part, c)[1]
       [] c = HIGH -> AggMax(ColumnOf(part, c))
       [] c = LOW -> AggMin(ColumnOf(part, c))
       [] c = CLOSE -> ColumnOf(part, c)[Len(part)]
       [] c = VOLUME -> AggSum(ColumnOf(part, c))
       [] OTHER -> ColumnOf(part, c)[Len(part)]]

\* TimeFrameData._to_higher_tf_accurate(base_df, higher_tf)
ToHigherTfAccurate(base_df, higher_tf) ==
  LET freq == FreqMap(higher_tf)
  IN IF TfPriority(higher_tf) = 0 THEN Failure("KeyError")
     ELSE IF TfPriority(higher_tf) <= TfPriority("day") THEN Success(base_df)
     ELSE Success([columns |-> base_df.columns,
                   rows |-> [i \in DOMAIN base_df.rows |->
                               [ts |-> base_df.rows[i].ts,
                                v |-> AccurateRow(PartOf(base_df, freq, i),
                                                  base_df.columns)]]])

\* Reindex taking the last row strictly before the timestamp
ReindexStrictlyBefore(df, index) ==
  [columns |-> df.columns,
   rows |-> [i \in DOMAIN index |->
               LET before == {j \in DOMAIN df.rows : df.rows[j].ts < index[i]}
               IN [ts |-> index[i],
                   v |-> IF before = {} THEN [c \in df.columns |-> NaN]
                         ELSE df.rows[Max(before)].v]]]

\* Reindex left out: the table keeps its own index
ReindexSkipped(df, index) == df

\* df.reindex(index, method="ffill"): at every timestamp of index the last
\* row of df at or before it, missing values when there is none
Reindex(df, index) ==
  [columns |-> df.columns,
   rows |-> [i \in DOMAIN index |->
               LET before == {j \in DOMAIN df.rows : df.rows[j].ts <= index[i]}
               IN [ts |-> index[i],
                   v |-> IF before = {} THEN [c \in df.columns |-> NaN]
                         ELSE df.rows[Max(before)].v]]]

\* the row of df at timestamp t, missing values when df has none
RowAt(df, t) ==
  IF t \in Stamps(df)
  THEN (CHOOSE r \in Range(df.rows) : r.ts = t).v
  ELSE [c \in df.columns |-> NaN]

\* left.join(right, how="outer"): the union of the two indexes
JoinOuter(left, right) ==
  LET index == SortedSeq(Stamps(left) \cup Stamps(right))
  IN [columns |-> left.columns \cup right.columns,
      rows |-> [i \in DOMAIN index |->
                  [ts |-> index[i],
                   v |-> RowAt(left, index[i]) @@ RowAt(right, index[i])]]]

\* a (df, tf) tuple of the data list; isNone says that df is None
Entry(df, tf) == [df |-> df, isNone |-> FALSE, tf |-> tf]

AbsentEntry(tf) == [df |-> EmptyTable, isNone |-> TRUE, tf |-> tf]

\* the higher-timeframe table of one entry, before renaming
HigherTable(base_df, min_tf, entry, index, fast) ==
  LET derived == IF entry.tf = None
                 THEN toTimeframe(base_df, entry.tf)
                 ELSE IF entry.isNone THEN Failure("AttributeError")
                 ELSE Success(entry.df)
  IN IF fast
     THEN IF derived.status # "ok" THEN derived
          ELSE Success(Reindex(derived.out, index))
     ELSE ToHigherTfAccurate(base_df, entry.tf)

\* the loop of mergeTimeframes over the data list, from entry i on
RECURSIVE MergeLoop(_, _, _, _, _, _)
MergeLoop(result, base_df, min_tf, entries, i, fast) ==
  IF i > Len(entries) THEN Success(result)
  ELSE IF entries[i].tf = min_tf
  THEN MergeLoop(result, base_df, min_tf, entries, i + 1, fast)
  ELSE LET higher == HigherTable(base_df, min_tf, entries[i],
                                 Index(result), fast)
           renamed == RenameCols(higher.out, entries[i].tf)
       IN IF higher.status # "ok" THEN higher
          ELSE IF renamed.columns \cap result.columns # {}
          THEN Failure("ColumnsOverlap")
          ELSE MergeLoop(JoinOuter(result, renamed), base_df, min_tf,
                         entries, i + 1, fast)

\* TimeFrameData.mergeTimeframes(data, fast)
mergeTimeframes(entries, fast) ==
  LET timeframes == SelectSeq([i \in DOMAIN entries |-> entries[i].tf],
                              LAMBDA tf : tf # None)
  IN IF timeframes = <<>> THEN Failure("NoTimeframes")
     ELSE IF \E i \in DOMAIN timeframes : TfPriority(timeframes[i]) = 0
     THEN Failure("KeyError")
     ELSE LET least == Min({TfPriority(timeframes[i]) :
                              i \in DOMAIN timeframes})
              min_tf == timeframes[Min({i \in DOMAIN timeframes :
                                   TfPriority(timeframes[i]) = least})]
              base == entries[Min({i \in DOMAIN entries :
                                     entries[i].tf = min_tf})]
          IN IF base.isNone THEN Failure("BaseNone")
             ELSE MergeLoop(RenameCols(base.df, min_tf), base.df, min_tf,
                            entries, 1, fast)

(* ------------------------------ inputs --------------------------------- *)
Bar(o, h, l, c, q) ==
  [k \in OHLCVColumns |-> CASE k = OPEN -> o
                            [] k = HIGH -> h
                            [] k = LOW -> l
                            [] k = CLOSE -> c
                            [] k = VOLUME -> q]

\* well-formed price bars: Low <= Open, Close <= High
Bars ==
  LET all == {Bar(o, h, l, c, q) : o \in PriceLevels, h \in PriceLevels,
                                   l \in PriceLevels, c \in PriceLevels,
                                   q \in 1..MaxVolume}
  IN {b \in all : /\ b[LOW] <= b[OPEN] /\ b[LOW] <= b[CLOSE]
                  /\ b[OPEN] <= b[HIGH] /\ b[CLOSE] <= b[HIGH]}

\* the bar interval of the download: one minute or one day
StepOf(iv) == IF iv = "1m" THEN 1 ELSE MinutesPerDay

\* every series of 1 to MaxLen rows with strictly increasing timestamps
AllSeries(iv) ==
  LET rowSet == {[ts |-> k * StepOf(iv), v |-> b] : k \in 0..MaxStamp, b \in Bars}
  IN {s \in UNION {[1..n -> rowSet] : n \in 1..MaxLen} :
        \A i \in DOMAIN s : \A j \in DOMAIN s : i < j => s[i].ts < s[j].ts}

Symbols == <<"AAPL", "TSLA">>

\* the multi-symbol table: the symbols in good have a full OHLCV sub-table,
\* the others lack columns (only Close was delivered)
TableOf(df, good) ==
  [i \in DOMAIN Symbols |->
     [symbol |-> Symbols[i],
      df |-> IF Symbols[i] \in good THEN df ELSE Project(df, {CLOSE})]]

TargetStrings == {<<"1", "d">>, <<"3", "d">>, <<"1", "w">>, <<"1", "m">>,
                  <<"1", "h">>, <<"d", "a", "y">>, <<"x", "d">>, <<>>}

\* the (from_tf, to_tf) tuples tried: every pair of intraday timeframes, and
\* from one minute every string target and a target of another type
Conversions ==
  {<<f, IntTf(n)>> : f \in 1..MaxTf, n \in 1..MaxTf}
  \cup {<<1, StrTf(s)>> : s \in TargetStrings}
  \cup {<<1, OtherTf>>}

\* a coarse table computed elsewhere: one flat bar at every period start of
\* the timeframe from 2024-12-30 on
ForeignTable(tf) ==
  LET index == SortedSeq({a \in CalendarGrid(FreqMap(tf)) : a >= MinutesPerDay})
  IN [columns |-> {<<"Price">> \o c : c \in OHLCVColumns},
      rows |-> [i \in DOMAIN index |->
                  [ts |-> index[i],
                   v |-> [pc \in {<<"Price">> \o c : c \in OHLCVColumns} |-> 1]]]]

EntryKinds == {"supplied", "absent", "foreign", "unlabelled", "empty", "nobase"}

\* the labels of the second entry: the lists that hold no labelled higher
\* entry are tried once
HigherLabels(kind) == IF kind \in {"unlabelled", "empty", "nobase"} THEN {"week"}
                      ELSE Labels \ {"day"}

\* the data list passed to mergeTimeframes
EntriesOf(df, kind, tf) ==
  CASE kind = "supplied" -> <<Entry(df, "day"), Entry(toTimeframe(df, tf).out, tf)>>
    [] kind = "absent" -> <<Entry(df, "day"), AbsentEntry(tf)>>
    [] kind = "foreign" -> <<Entry(df, "day"), Entry(ForeignTable(tf), tf)>>
    [] kind = "unlabelled" -> <<Entry(df, "day"), AbsentEntry(None)>>
    [] kind = "empty" -> <<>>
    [] kind = "nobase" -> <<AbsentEntry("day"), AbsentEntry(tf)>>

(* --------------------------- state machine ----------------------------- *)
\* Every operation is a pure function of its arguments: a behaviour is one
\* call on one downloaded series, and res records the call and what it
\* returned or raised.
NoCall == [op |-> "none", from |-> 0, to |-> NoTf, tf |-> "", fast |-> FALSE,
           kind |-> "", vol |-> FALSE, good |-> {}, status |-> "", out |-> EmptyTable,
           many |-> <<>>]

Init ==
  /\ interval \in {"1m", "1d"}
  /\ \E s \in AllSeries(interval) : data = [columns |-> OHLCVColumns, rows |-> s]
  /\ res = NoCall

\* tf.convert(data, (from_tf, to_tf)) on intraday bars
Convert ==
  /\ res.op = "none"
  /\ interval = "1m"
  /\ \E conv \in Conversions :
       LET r == convert(data, conv[1], conv[2])
       IN res' = [NoCall EXCEPT !.op = "convert", !.from = conv[1],
                                !.to = conv[2], !.status = r.status,
                                !.out = r.out]
  /\ UNCHANGED <<interval, data>>

\* tf.convertMany(table, (from_tf, to_tf)) on a multi-symbol table
ConvertMany ==
  /\ res.op = "none"
  /\ interval = "1m"
  /\ \E good \in SUBSET Range(Symbols) :
       \E conv \in {<<1, MaxTf>>, <<MaxTf, 1>>} :
         LET r == convertMany(TableOf(data, good), conv[1], IntTf(conv[2]))
         IN res' = [NoCall EXCEPT !.op = "convertMany", !.from = conv[1],
                                  !.to = IntTf(conv[2]), !.good = good,
                                  !.status = r.status, !.many = r.many]
  /\ UNCHANGED <<interval, data>>

\* toTimeframe(data, timeframe) on daily bars, with or without Volume
ToTimeframe ==
  /\ res.op = "none"
  /\ interval = "1d"
  /\ \E tf \in Labels \cup {"hour"} : \E vol \in BOOLEAN :
       LET df == IF vol THEN data ELSE Project(data, OHLCColumns)
           r == toTimeframe(df, tf)
       IN res' = [NoCall EXCEPT !.op = "toTimeframe", !.tf = tf, !.vol = vol,
                                !.status = r.status, !.out = r.out]
  /\ UNCHANGED <<interval, data>>

\* _to_higher_tf_accurate(base_df, higher_tf) on daily bars
Accurate ==
  /\ res.op = "none"
  /\ interval = "1d"
  /\ \E tf \in Labels \cup {"hour"} :
       LET r == ToHigherTfAccurate(data, tf)
       IN res' = [NoCall EXCEPT !.op = "accurate", !.tf = tf,
                                !.status = r.status, !.out = r.out]
  /\ UNCHANGED <<interval, data>>

\* mergeTimeframes(data, fast) with the daily bars as the base
MergeTimeframes ==
  /\ res.op = "none"
  /\ interval = "1d"
  /\ \E kind \in EntryKinds : \E tf \in HigherLabels(kind) : \E fast \in BOOLEAN :
       LET r == mergeTimeframes(EntriesOf(data, kind, tf), fast)
       IN res' = [NoCall EXCEPT !.op = "merge", !.tf = tf, !.kind = kind,
                                !.fast = fast, !.status = r.status,
                                !.out = r.out]
  /\ UNCHANGED <<interval, data>>

Next == Convert \/ ConvertMany \/ ToTimeframe \/ Accurate \/ MergeTimeframes

Spec == Init /\ [][Next]_vars

\* the calls of TimeframeData
NextConvert == Convert \/ ConvertMany

SpecConvert == Init /\ [][NextConvert]_vars

\* the two aggregations
NextAggregate == Convert \/ ToTimeframe

SpecAggregate == Init /\ [][NextAggregate]_vars

\* the accurate re-aggregation and the merge
NextMerge == Accurate \/ MergeTimeframes

SpecMerge == Init /\ [][NextMerge]_vars

(* ------------------------------ claims --------------------------------- *)
Returned(op) == res.op = op /\ res.status = "ok"

\* the input table of the toTimeframe call recorded in res
ToTimeframeInput == IF res.vol THEN data ELSE Project(data, OHLCColumns)

\* the period of a timestamp under the conversion recorded in res
ResLabel(t) ==
  CASE res.op = "convert" /\ res.to.type = "int" ->
         MinuteLabel(data, res.to.n, t)
    [] res.op = "convert" /\ res.to.type = "str" ->
         CalendarLabel(data, ConvertUnit(res.to.s),
                       Multiplier(Prefix(res.to.s)), t)
    [] res.op = "toTimeframe" -> LeftLabel(FreqMap(res.tf), t)

\* the input rows of the period labelled l, in timestamp order
Contributing(l) == SelectSeq(data.rows, LAMBDA r : ResLabel(r.ts) = l)

\* the value of column c in an output row of convert or toTimeframe, or of
\* the higher timeframe's column c in a row of a fast merge
Cell(row, c) == CASE res.op = "toTimeframe" -> row.v[<<"Price">> \o c]
                  [] res.op = "merge" -> row.v[<<"Price", c[1], res.tf>>]
                  [] OTHER -> row.v[c]

HasColumn(c) == CASE res.op = "toTimeframe" -> <<"Price">> \o c \in res.out.columns
                  [] res.op = "merge" -> <<"Price", c[1], res.tf>> \in res.out.columns
                  [] OTHER -> c \in res.out.columns

\* row is the bar of the input rows rs: first Open, greatest High, least Low,
\* last Close, summed Volume
IsBarOf(row, rs) ==
  /\ Cell(row, OPEN) = rs[1].v[OPEN]
  /\ \A i \in DOMAIN rs : Cell(row, HIGH) >= rs[i].v[HIGH]
  /\ \E i \in DOMAIN rs : Cell(row, HIGH) = rs[i].v[HIGH]
  /\ \A i \in DOMAIN rs : Cell(row, LOW) <= rs[i].v[LOW]
  /\ \E i \in DOMAIN rs : Cell(row, LOW) = rs[i].v[LOW]
  /\ Cell(row, CLOSE) = rs[Len(rs)].v[CLOSE]
  /\ HasColumn(VOLUME) =>
       Cell(row, VOLUME) = SumSeq([i \in DOMAIN rs |-> rs[i].v[VOLUME]])

\* C1: every bar that convert or toTimeframe emits for a period with
\* contributing rows r1..rn has Open = r1.Open, High = the greatest High,
\* Low = the least Low, Close = rn.Close and Volume = the sum of the Volumes.
C1_AggregationCorrect ==
  (Returned("convert") \/ Returned("toTimeframe")) =>
    \A k \in DOMAIN res.out.rows :
      LET rs == Contributing(res.out.rows[k].ts)
      IN rs # <<>> => IsBarOf(res.out.rows[k], rs)

\* a conversion that put two rows with different Highs and Closes, the
\* greater High first, in one bar
C1_Witness ==
  /\ Returned("convert")
  /\ res.to.type = "int"
  /\ Len(data.rows) = 2
  /\ Len(res.out.rows) = 1
  /\ data.rows[1].v[HIGH] > data.rows[2].v[HIGH]
  /\ data.rows[1].v[CLOSE] # data.rows[2].v[CLOSE]

\* C2: with an integer target convert succeeds iff to_tf % from_tf = 0 and
\* to_tf // from_tf >= 1, and otherwise raises the "must be a multiple"
\* ValueError and returns no series.
C2_MultipleOf ==
  (res.op = "convert" /\ res.to.type = "int") =>
    /\ res.status = "ok" <=>
         (res.to.n % res.from = 0 /\ res.to.n \div res.from >= 1)
    /\ res.status # "ok" =>
         (res.status = "MustBeMultiple" /\ res.out = EmptyTable)

\* a conversion to a proper multiple that returned bars
C2_Witness ==
  /\ Returned("convert")
  /\ res.to.type = "int"
  /\ res.from > 1
  /\ res.to.n > res.from
  /\ res.out.rows # <<>>

\* the table cut after its row i: every later row removed
Truncate(df, i) == [df EXCEPT !.rows = SubSeq(df.rows, 1, i)]

\* the base row i is the first of its accurate period
FirstOfPeriod(i) ==
  \A j \in 1..(i - 1) :
    PeriodOf(FreqMap(res.tf), data.rows[j].ts)
      # PeriodOf(FreqMap(res.tf), data.rows[i].ts)

\* C3: no look-ahead in accurate mode.  The row computed at a base row is
\* the row computed when every later base row is removed, so two series that
\* agree up to t (both then have the same truncation at t) get the same row
\* at t in _to_higher_tf_accurate, and at the first row of a period the
\* accurate Close is that row's Close.  For mergeTimeframes with fast=False
\* the same is stated one step at a time: removing the last base row removes
\* the last merged row and changes no other (every prefix of a series is a
\* series of the model too, so the rows at t are those of the series cut
\* at t).
C3_NoLookAhead ==
  /\ Returned("accurate") =>
       \A i \in DOMAIN data.rows :
         /\ res.out.rows[i]
              = ToHigherTfAccurate(Truncate(data, i), res.tf).out.rows[i]
         /\ FirstOfPeriod(i) =>
              res.out.rows[i].v[CLOSE] = data.rows[i].v[CLOSE]
  /\ (Returned("merge") /\ ~res.fast /\ Len(data.rows) > 1) =>
       LET n == Len(data.rows) - 1
       IN SubSeq(res.out.rows, 1, n)
            = mergeTimeframes(EntriesOf(Truncate(data, n), res.kind, res.tf),
                              FALSE).out.rows

\* an accurate weekly table over two rows of one period whose second row has
\* the greater High and another Close
C3_Witness ==
  /\ Returned("accurate")
  /\ res.tf = "week"
  /\ Len(data.rows) = 2
  /\ PeriodOf("W-MON", data.rows[1].ts) = PeriodOf("W-MON", data.rows[2].ts)
  /\ data.rows[1].v[HIGH] < data.rows[2].v[HIGH]
  /\ data.rows[1].v[CLOSE] # data.rows[2].v[CLOSE]
  /\ res.out.rows[1].v[HIGH] < res.out.rows[2].v[HIGH]

\* the higher-timeframe table handed to the merge recorded in res
SuppliedTable == EntriesOf(data, res.kind, res.tf)[2].df

\* the higher timeframe's cells of a merged row are those of a coarse row
CellsOf(row, coarseRow) ==
  \A c \in OHLCVColumns : Cell(row, c) = coarseRow.v[<<"Price">> \o c]

NoCells(row) == \A c \in OHLCVColumns : Cell(row, c) = NaN

\* the rows of the supplied table whose period is over at t: it starts at or
\* before t and none of its contributing base rows comes after t
Completed(t) ==
  {k \in DOMAIN SuppliedTable.rows :
     /\ SuppliedTable.rows[k].ts <= t
     /\ \A j \in DOMAIN data.rows :
          LeftLabel(FreqMap(res.tf), data.rows[j].ts) = SuppliedTable.rows[k].ts
            => data.rows[j].ts <= t}

\* C4 as stated: in a fast merge the coarse columns at t hold the bar of the
\* most recent coarse period already completed at t, and no value when there
\* is no such bar.
C4_PriorCompletedBar ==
  (Returned("merge") /\ res.fast /\ res.kind = "supplied") =>
    \A i \in DOMAIN data.rows :
      LET done == Completed(data.rows[i].ts)
      IN IF done = {} THEN NoCells(res.out.rows[i])
         ELSE CellsOf(res.out.rows[i], SuppliedTable.rows[Max(done)])

\* the rows of the supplied table labelled at or before t
StartedBy(t) == {k \in DOMAIN SuppliedTable.rows : SuppliedTable.rows[k].ts <= t}

\* the base rows of the period of toTimeframe that holds t
PeriodRows(t) ==
  SelectSeq(data.rows, LAMBDA r : LeftLabel(FreqMap(res.tf), r.ts)
                                    = LeftLabel(FreqMap(res.tf), t))

\* C4 amended: in a fast merge the coarse columns at t hold the supplied bar
\* with the greatest label at or before t, and no value when t precedes every
\* label; for a table made by toTimeframe from the base that bar is the whole
\* bar of the period holding t, the rows after t included.
C4_ForwardFilledBar ==
  (Returned("merge") /\ res.fast /\ res.kind \in {"supplied", "foreign"}) =>
    \A i \in DOMAIN data.rows :
      LET started == StartedBy(data.rows[i].ts)
      IN /\ IF started = {} THEN NoCells(res.out.rows[i])
            ELSE CellsOf(res.out.rows[i], SuppliedTable.rows[Max(started)])
         /\ res.kind = "supplied" =>
              IsBarOf(res.out.rows[i], PeriodRows(data.rows[i].ts))

\* a fast weekly merge whose row at the first base row already shows the
\* Close and the High of the second base row of the same week
C4_Witness ==
  /\ Returned("merge")
  /\ res.fast
  /\ res.kind = "supplied"
  /\ res.tf = "week"
  /\ Len(data.rows) = 2
  /\ LeftLabel("W-MON", data.rows[1].ts) = LeftLabel("W-MON", data.rows[2].ts)
  /\ data.rows[1].v[CLOSE] # data.rows[2].v[CLOSE]
  /\ data.rows[1].v[HIGH] < data.rows[2].v[HIGH]
  /\ Cell(res.out.rows[1], CLOSE) = data.rows[2].v[CLOSE]
  /\ Cell(res.out.rows[1], HIGH) = data.rows[2].v[HIGH]

\* C5 as stated: an entry (None, label) is derived from the base by
\* toTimeframe and merged, in fast and in accurate mode; the merge does not
\* fail and returns what passing the derived table returns.
C5_AbsentSeriesDerived ==
  (res.op = "merge" /\ res.kind = "absent") =>
    /\ res.status = "ok"
    /\ res.out = mergeTimeframes(EntriesOf(data, "supplied", res.tf),
                                 res.fast).out

\* what convert does on the sub-table of symbol i of the recorded call
ConvertOfSymbol(i) ==
  convert(TableOf(data, res.good)[i].df, res.from, res.to)

\* C6 as stated: when convert fails for some symbols and succeeds for others,
\* convertMany still returns an entry for every symbol, the converted series
\* for each symbol that succeeds.
C6_PerSymbolIsolation ==
  (/\ res.op = "convertMany"
   /\ \E i \in DOMAIN Symbols : ConvertOfSymbol(i).status = "ok"
   /\ \E i \in DOMAIN Symbols : ConvertOfSymbol(i).status # "ok") =>
    /\ DOMAIN res.many = DOMAIN Symbols
    /\ \A i \in DOMAIN res.many :
         ConvertOfSymbol(i).status = "ok" =>
           res.many[i] = [symbol |-> Symbols[i], df |-> ConvertOfSymbol(i).out]

\* C7 as stated: the output of convert and of toTimeframe has exactly one
\* row per period with a contributing input row and no row for any other
\* period.
C7_EmptyPeriodsDropped ==
  (Returned("convert") \/ Returned("toTimeframe")) =>
    /\ Stamps(res.out) = {ResLabel(data.rows[i].ts) : i \in DOMAIN data.rows}
    /\ Len(res.out.rows) = Cardinality(Stamps(res.out))

NotCalendarSuffix(s) ==
  Len(s) = 0 \/ s[Len(s)] \notin {"d", "w", "m"}

\* C8 as stated: a string target that is no calendar granularity fails and
\* yields no series, in convert (a string not ending in d, w or m) and in
\* toTimeframe (a label outside day/week/month/year).
C8_UnsupportedRejected ==
  /\ (res.op = "convert" /\ res.to.type = "str" /\ NotCalendarSuffix(res.to.s)) =>
       (res.status = "UnsupportedHigherTimeframe" /\ res.out = EmptyTable)
  /\ (res.op = "toTimeframe" /\ res.tf \notin Labels) =>
       (res.status # "ok" /\ res.out = EmptyTable)

\* C8 amended: convert fails with the "Unsupported higher timeframe" error
\* and yields no series for a string not ending in d, w or m; toTimeframe
\* does not fail for a label outside day/week/month/year: it returns the
\* daily aggregation.
C8_UnsupportedConvertOnly ==
  /\ (res.op = "convert" /\ res.to.type = "str" /\ NotCalendarSuffix(res.to.s)) =>
       (res.status = "UnsupportedHigherTimeframe" /\ res.out = EmptyTable)
  /\ (res.op = "toTimeframe" /\ res.tf \notin Labels) =>
       (res.status = "ok" /\ res.out = toTimeframe(ToTimeframeInput, "day").out)

\* toTimeframe with the label "hour" over two days of one week: two daily
\* bars come back where the weekly aggregation has one
C8_Witness ==
  /\ Returned("toTimeframe")
  /\ res.tf = "hour"
  /\ Len(data.rows) = 2
  /\ LeftLabel("W-MON", data.rows[1].ts) = LeftLabel("W-MON", data.rows[2].ts)
  /\ Len(res.out.rows) >= 2

\* C9: the index of the table mergeTimeframes returns is exactly the base
\* series' timestamps, none added and none dropped.
C9_IndexIsBaseIndex ==
  Returned("merge") => Index(res.out) = Index(data)

\* a fast merge of a supplied table that has timestamps the base has not
C9_Witness ==
  /\ Returned("merge")
  /\ res.fast
  /\ res.kind = "foreign"
  /\ data.rows # <<>>
  /\ \E t \in Stamps(SuppliedTable) :
       /\ t \notin Stamps(data)
       /\ t < data.rows[Len(data.rows)].ts

\* the base row i is the last of its toTimeframe period
LastOfAggPeriod(i) ==
  \A j \in (i + 1)..Len(data.rows) :
    LeftLabel(FreqMap(res.tf), data.rows[j].ts)
      # LeftLabel(FreqMap(res.tf), data.rows[i].ts)

\* C10 as stated: _to_higher_tf_accurate puts two base rows in one period iff
\* toTimeframe does, so the accurate row at the last base row of a
\* toTimeframe period is that period's bar.
C10_SamePeriods ==
  (Returned("accurate") /\ res.tf \in {"week", "month", "year"}) =>
    /\ \A i \in DOMAIN data.rows : \A j \in DOMAIN data.rows :
         PeriodOf(FreqMap(res.tf), data.rows[i].ts)
             = PeriodOf(FreqMap(res.tf), data.rows[j].ts)
           <=> LeftLabel(FreqMap(res.tf), data.rows[i].ts)
                 = LeftLabel(FreqMap(res.tf), data.rows[j].ts)
    /\ \A i \in DOMAIN data.rows :
         LastOfAggPeriod(i) =>
           \E k \in DOMAIN toTimeframe(data, res.tf).out.rows :
             LET bar == toTimeframe(data, res.tf).out.rows[k]
             IN /\ bar.ts = LeftLabel(FreqMap(res.tf), data.rows[i].ts)
                /\ \A c \in OHLCVColumns :
                     res.out.rows[i].v[c] = bar.v[<<"Price">> \o c]

====
